---- MODULE Spec2Model ----
(***************************************************************************)
(* Prompt/page matching, match-status classification and opportunity       *)
(* generation of llmo-prompts-intent, modelled from                        *)
(*   backend/app/services/matcher.py                                       *)
(*   backend/app/services/embeddings.py                                    *)
(*   backend/app/services/opportunity_generator.py                         *)
(*   backend/app/workers/matcher_tasks.py                                  *)
(*   backend/app/workers/nlp_tasks.py                                      *)
(*                                                                         *)
(* Numbers.  Python floats are modelled as exact fixed-point integers:     *)
(*   similarity, popularity, sentiment, transaction scores : 1/1000        *)
(*   technical_complexity                                  : 1/10000       *)
(*   difficulty_score                                      : 1/1000000     *)
(*   priority_score                                        : 1/10000000    *)
(* Floating-point rounding is not modelled.                                *)
(* Optional[float] is a sequence of length 0 (None) or 1.                  *)
(***************************************************************************)
EXTENDS Integers, Sequences, FiniteSets, TLC

\* ---------------------------------------------------------------- bounds
\* tasks the worker starts in one behaviour
MaxTasks == 3
\* largest best_score (1/1000) handed to classify_match_status on its own
MaxScore == 1000
\* longest candidate list handed to find_most_similar on its own
MaxCandidates == 3
\* most key words of a prompt handed to the MatchResult construction on its own
MaxWords == 4
\* most patterns of one intent type that a text handed to classify on its own
\* matches
MaxMatches == 2

Prompts == {1, 2}
Pages == {1, 2}
\* the page corpus of the project at the start of a run: pages come in crawl
\* by crawl
PageCorpora == {{}, {1}, {1, 2}}
NumPrompts == Cardinality(Prompts)

\* similarities (1/1000, after the move to 0..1) of a prompt and a page in
\* the task runs
SimValues == {400, 500}

\* ----------------------------------------------------- program constants
MATCH_THRESHOLD_ANSWERED == 750
MATCH_THRESHOLD_PARTIAL == 500
TRANSACTIONAL_THRESHOLD == 600
TOP_K == 5
EXACT_BOOST == 850
COMMIT_EVERY == 50

None == << >>
Some(v) == << v >>
IsNone(o) == o = << >>
Val(o) == o[1]

Min(a, b) == IF a <= b THEN a ELSE b
Max(a, b) == IF a >= b THEN a ELSE b
Abs(a) == IF a < 0 THEN 0 - a ELSE a

\* ------------------------------------------------------------ embeddings
\* A cosine is in 1/1000 (-1000..1000).  A candidate is None when its vector
\* has zero norm, else Some(cosine of the query and the candidate);
\* query_zero says that the query vector has zero norm.

\* EmbeddingService.similarity: 0.0 when either norm is zero, else the
\* cosine moved to 0..1
similarity(query_zero, candidate) ==
    IF query_zero \/ IsNone(candidate) THEN 0
    ELSE (Val(candidate) + 1000) \div 2

\* dot_products / (norms_candidates * norm_query) under np.errstate: a zero
\* norm makes the dot product zero too, so the quotient is 0/0 = nan (None)
divide(query_zero, candidate) ==
    IF query_zero \/ IsNone(candidate) THEN None ELSE candidate

\* np.nan_to_num(similarities, nan=0.0, posinf=0.0, neginf=0.0)
nan_to_num(quotient) == IF IsNone(quotient) THEN 0 ELSE Val(quotient)

\* the similarities array of find_most_similar after line 158
normalized_similarities(query_zero, candidates) ==
    [j \in 1..Len(candidates) |->
        (nan_to_num(divide(query_zero, candidates[j])) + 1000) \div 2]

\* np.argsort(similarities): a permutation of the indices that puts the
\* values in ascending order.  The default sort kind is not stable, so the
\* order of equal values is whatever the numpy build produces.
argsort_outcomes(similarities) ==
    { order \in [1..Len(similarities) -> 1..Len(similarities)] :
        /\ \A a, b \in 1..Len(similarities) : a # b => order[a] # order[b]
        /\ \A a, b \in 1..Len(similarities) :
              a < b => similarities[order[a]] <= similarities[order[b]] }

\* EmbeddingService.find_most_similar from the similarities array on:
\* np.argsort(similarities)[::-1][:top_k], order being the argsort result.
\* similarities is a sequence indexed by candidate position (1-based).
find_most_similar(similarities, top_k, order) ==
    IF Len(similarities) = 0 THEN << >>
    ELSE [r \in 1..Min(top_k, Len(similarities)) |->
            [ idx        |-> order[Len(similarities) + 1 - r],
              similarity |-> similarities[order[Len(similarities) + 1 - r]] ]]

\* --------------------------------------------------------------- matcher
\* classify_match_status with a strict comparison at the answered threshold
classify_match_status_strict(best_score) ==
    IF IsNone(best_score) THEN "gap"
    ELSE IF Val(best_score) > MATCH_THRESHOLD_ANSWERED THEN "answered"
    ELSE IF Val(best_score) >= MATCH_THRESHOLD_PARTIAL THEN "partial"
    ELSE "gap"

\* classify_match_status with the two lower buckets exchanged
classify_match_status_swapped(best_score) ==
    IF IsNone(best_score) THEN "gap"
    ELSE IF Val(best_score) >= MATCH_THRESHOLD_ANSWERED THEN "answered"
    ELSE IF Val(best_score) >= MATCH_THRESHOLD_PARTIAL THEN "gap"
    ELSE "partial"

\* MatcherService.classify_match_status
classify_match_status(best_score) ==
    IF IsNone(best_score) THEN "gap"
    ELSE IF Val(best_score) >= MATCH_THRESHOLD_ANSWERED THEN "answered"
    ELSE IF Val(best_score) >= MATCH_THRESHOLD_PARTIAL THEN "partial"
    ELSE "gap"

\* MatcherService._check_exact_match: key_words is the number of prompt words
\* left after dropping stop words and words of one or two letters, found the
\* number of them that occur in the page content (0 for an empty content);
\* matches >= len(words) * 0.7
check_exact_match(key_words, found) ==
    IF key_words = 0 THEN FALSE ELSE 10 * found >= 7 * key_words

\* MatchResult without the floor for exact matches
MatchResult_unfloored(page_id, raw_similarity, exact_match, rank) ==
    [ page_id          |-> page_id,
      similarity_score |-> raw_similarity,
      match_type       |-> IF exact_match THEN "exact"
                           ELSE IF raw_similarity >= MATCH_THRESHOLD_PARTIAL
                                THEN "semantic" ELSE "partial",
      rank             |-> rank ]

\* One MatchResult: the body of the loop of find_matches_in_memory.
\* exact_match is the outcome of _check_exact_match(prompt_text, content).
MatchResult(page_id, raw_similarity, exact_match, rank) ==
    [ page_id          |-> page_id,
      similarity_score |-> IF exact_match THEN Max(raw_similarity, EXACT_BOOST)
                           ELSE raw_similarity,
      match_type       |-> IF exact_match THEN "exact"
                           ELSE IF raw_similarity >= MATCH_THRESHOLD_PARTIAL
                                THEN "semantic" ELSE "partial",
      rank             |-> rank ]

\* the similarities of the prompt and the pages of the page_data list
page_similarities(sim, pages) == [j \in 1..Len(pages) |-> sim[pages[j]]]

\* MatcherService.find_matches_in_memory.  pages is the page_data list (a
\* sequence of page ids); sim[pg] is the similarity (0..1) of the prompt and
\* page pg, exact[pg] whether the prompt's key words occur in its content,
\* order the outcome of np.argsort on the page similarities.
find_matches_in_memory(sim, exact, pages, top_k, order) ==
    IF Len(pages) = 0 THEN << >>
    ELSE LET similar_indices == find_most_similar(page_similarities(sim, pages),
                                                  top_k * 2, order)
             kept == Min(top_k, Len(similar_indices))
         IN [rank \in 1..kept |->
                MatchResult(pages[similar_indices[rank].idx],
                            similar_indices[rank].similarity,
                            exact[pages[similar_indices[rank].idx]],
                            rank)]
\* ------------------------------------------------- opportunity generator
\* A prompt text, reduced to what the generator reads from it:
\*   word_count   len(prompt_text.split())
\*   faq_stem     starts with what is/what are/what does/how do/how to/can i/is there
\*   pricing      contains "price" or "cost"   (precision and pricing keyword)
\*   rate         contains "rate"
\*   precision    contains another precision keyword (how much, exact, ...)
\*   comparison   contains better/best/compare/vs/difference/which
\*   technical    contains api/integration/.../requirement
\*   policy       contains can i/am i allowed/is it possible/do i need/what happens if
Truthy(o) == ~IsNone(o) /\ Val(o) # 0

\* OpportunityGenerator._estimate_difficulty
base_technical_complexity(match_status, needs_new_page, best_match_score) ==
    IF needs_new_page THEN 6000
    ELSE IF match_status = "gap" THEN 4000
    ELSE IF match_status = "partial"
         THEN IF Truthy(best_match_score)
              THEN 4000 - (Val(best_match_score) * 3)
              ELSE 2500
    ELSE 0

content_complexity(word_count) ==
    IF word_count > 15 THEN 500
    ELSE IF word_count > 10 THEN 350
    ELSE IF word_count > 6 THEN 250
    ELSE 150

research_required(text) ==
    LET precise == IF text.pricing \/ text.precision THEN 300 ELSE 0
        compared == IF text.comparison THEN Max(precise, 350) ELSE precise
    IN IF text.policy THEN Max(compared, 250) ELSE compared

\* _estimate_difficulty without the clamp of line 174
estimate_difficulty_unclamped(match_status, has_related_pages, text, best_match_score) ==
    LET needs_new_page == match_status = "gap" /\ ~has_related_pages
        technical_complexity ==
            base_technical_complexity(match_status, needs_new_page, best_match_score)
            + (IF text.technical THEN 1500 ELSE 0)
        content == content_complexity(text.word_count)
        research == research_required(text)
        difficulty == (IF needs_new_page THEN 250000 ELSE 0)
                      + 30 * technical_complexity
                      + 250 * content
                      + 200 * research
    IN [ score   |-> difficulty,
         factors |-> [ needs_new_page       |-> needs_new_page,
                       technical_complexity |-> technical_complexity,
                       content_complexity   |-> content,
                       research_required    |-> research,
                       translation_needed   |-> FALSE ] ]

\* the factors and the overall difficulty, clamped to [0.1, 1.0] (line 174)
estimate_difficulty(match_status, has_related_pages, text, best_match_score) ==
    LET needs_new_page == match_status = "gap" /\ ~has_related_pages
        technical_complexity ==
            base_technical_complexity(match_status, needs_new_page, best_match_score)
            + (IF text.technical THEN 1500 ELSE 0)
        content == content_complexity(text.word_count)
        research == research_required(text)
        difficulty == (IF needs_new_page THEN 250000 ELSE 0)
                      + 30 * technical_complexity
                      + 250 * content
                      + 200 * research
    IN [ score   |-> Min(1000000, Max(100000, difficulty)),
         factors |-> [ needs_new_page       |-> needs_new_page,
                       technical_complexity |-> technical_complexity,
                       content_complexity   |-> content,
                       research_required    |-> research,
                       translation_needed   |-> FALSE ] ]

\* _recommend_action with > for >= at line 188
recommend_action_strict(transaction_score, match_status, has_related_pages, text) ==
    IF transaction_score > TRANSACTIONAL_THRESHOLD
    THEN IF match_status = "gap"
         THEN IF text.pricing \/ text.rate
              THEN [ action |-> "create_product_page",
                     reason |-> "High purchase intent query about pricing needs dedicated pricing/product page with clear CTAs" ]
              ELSE [ action |-> "create_landing_page",
                     reason |-> "High purchase intent query needs conversion-focused landing page" ]
         ELSE [ action |-> "add_cta",
                reason |-> "Partial match exists - add or improve call-to-action for conversion" ]
    ELSE IF text.faq_stem
    THEN IF match_status = "gap"
         THEN [ action |-> "create_faq",
                reason |-> "Common question not answered - add to FAQ or help content" ]
         ELSE [ action |-> "expand_existing",
                reason |-> "Question partially answered - expand existing content" ]
    ELSE IF match_status = "gap"
    THEN IF has_related_pages
         THEN [ action |-> "expand_existing",
                reason |-> "Related content exists - expand to cover this topic" ]
         ELSE [ action |-> "create_article",
                reason |-> "No related content - create new informational article" ]
    ELSE IF match_status = "partial"
    THEN [ action |-> "expand_existing",
           reason |-> "Content partially addresses query - needs expansion" ]
    ELSE [ action |-> "other", reason |-> "Review and determine best approach" ]

\* OpportunityGenerator._recommend_action
recommend_action(transaction_score, match_status, has_related_pages, text) ==
    IF transaction_score >= TRANSACTIONAL_THRESHOLD
    THEN IF match_status = "gap"
         THEN IF text.pricing \/ text.rate
              THEN [ action |-> "create_product_page",
                     reason |-> "High purchase intent query about pricing needs dedicated pricing/product page with clear CTAs" ]
              ELSE [ action |-> "create_landing_page",
                     reason |-> "High purchase intent query needs conversion-focused landing page" ]
         ELSE [ action |-> "add_cta",
                reason |-> "Partial match exists - add or improve call-to-action for conversion" ]
    ELSE IF text.faq_stem
    THEN IF match_status = "gap"
         THEN [ action |-> "create_faq",
                reason |-> "Common question not answered - add to FAQ or help content" ]
         ELSE [ action |-> "expand_existing",
                reason |-> "Question partially answered - expand existing content" ]
    ELSE IF match_status = "gap"
    THEN IF has_related_pages
         THEN [ action |-> "expand_existing",
                reason |-> "Related content exists - expand to cover this topic" ]
         ELSE [ action |-> "create_article",
                reason |-> "No related content - create new informational article" ]
    ELSE IF match_status = "partial"
    THEN [ action |-> "expand_existing",
           reason |-> "Content partially addresses query - needs expansion" ]
    ELSE [ action |-> "other", reason |-> "Review and determine best approach" ]

\* generate_opportunity multiplies transaction_score by a float (line 76):
\* a prompt whose transaction_score column is NULL makes it raise TypeError.
generate_opportunity_raises(transaction_score) == IsNone(transaction_score)

\* OpportunityGenerator.generate_opportunity, for a numeric transaction_score
generate_opportunity(text, popularity_score, transaction_score, sentiment_score, match_status, best_match_score, has_related_pages) ==
    LET difficulty == estimate_difficulty(match_status, has_related_pages,
                                          text, best_match_score)
        pop_score == IF Truthy(popularity_score) THEN Val(popularity_score) ELSE 500
        sent_impact == IF Truthy(sentiment_score) THEN Abs(Val(sentiment_score)) ELSE 0
        priority == 4000 * pop_score + 3000 * Val(transaction_score)
                    + 2000 * sent_impact - difficulty.score
        recommended == recommend_action(Val(transaction_score), match_status,
                                        has_related_pages, text)
    IN [ priority_score     |-> Max(0, Min(10000000, priority)),
         recommended_action |-> recommended.action,
         reason             |-> recommended.reason,
         difficulty_score   |-> difficulty.score,
         difficulty_factors |-> difficulty.factors ]
\* ------------------------------------------------------ intent classifier
\* Scores are in 1/1000, confidence in 1/2000 (best_score * 1.5 is then the
\* integer 3 * best_score).  A text is reduced to what classify reads:
\*   empty          the text is empty or only whitespace
\*   totals         per intent type, the sum of the weights (1/1000) of the
\*                  patterns of that type that the text matches
\*   ends_question  the stripped text ends with "?"
\*   contains       the word groups of _apply_fallback_rules found in the text
\*   first_word     the class of its first word (FirstWords)
IntentTypes ==
    { "transactional", "navigational", "informational", "commercial",
      "exploratory", "comparison", "troubleshooting", "opinion_seeking",
      "emotional", "procedural", "regulatory", "brand_monitoring", "meta" }

priority_order ==
    << "emotional", "meta", "troubleshooting", "transactional", "comparison",
       "commercial", "navigational", "procedural", "regulatory",
       "brand_monitoring", "opinion_seeking", "exploratory", "informational" >>

\* the weights that occur in the pattern list of each intent type
PatternWeights(intent_type) ==
    CASE intent_type = "transactional" -> {500, 600, 700, 800, 850, 900}
      [] intent_type = "navigational" -> {400, 500, 600, 700, 800, 900}
      [] intent_type \in {"commercial", "exploratory"} -> {500, 600, 700, 800}
      [] intent_type \in {"comparison", "emotional", "brand_monitoring"}
             -> {600, 700, 800, 900}
      [] OTHER -> {500, 600, 700, 800, 900}

\* _calculate_pattern_score: min(1.0, total_score / 2) if total_score > 0
calculate_pattern_score(total_score) ==
    IF total_score > 0 THEN Min(1000, total_score \div 2) ELSE 0

\* the scores dictionary of classify (lines 323-337), scores only
pattern_scores(text) ==
    [t \in IntentTypes |-> calculate_pattern_score(text.totals[t])]

THRESHOLD == 250
FALLBACK_SCORE == 300

\* the loop of lines 363-368 from position k of priority_order on
RECURSIVE best_match(_, _, _)
best_match(scores, k, best) ==
    IF k > Len(priority_order) THEN best
    ELSE LET intent_type == priority_order[k]
             score == scores[intent_type]
         IN best_match(scores, k + 1,
                IF score >= THRESHOLD /\ score >= best.score
                THEN [ intent |-> intent_type, score |-> score,
                       signals |-> << "Matched: pattern" >> ]
                ELSE best)

FallbackTerms ==
    { "how_to", "why_is", "policy", "good", "best", "tell_me_about",
      "book", "login" }
FirstWords == { "generation_verb", "how", "question_word", "why", "which", "other" }

\* _apply_fallback_rules
apply_fallback_rules(text) ==
    IF text.ends_question
    THEN IF "how_to" \in text.contains
         THEN [ intent |-> "procedural", signals |-> << "Question with 'how to' pattern" >> ]
         ELSE IF "why_is" \in text.contains
         THEN [ intent |-> "troubleshooting", signals |-> << "Question about problem" >> ]
         ELSE IF "policy" \in text.contains
         THEN [ intent |-> "regulatory", signals |-> << "Question about rules/policy" >> ]
         ELSE IF "good" \in text.contains
         THEN [ intent |-> "opinion_seeking", signals |-> << "Subjective question detected" >> ]
         ELSE IF "best" \in text.contains
         THEN [ intent |-> "commercial", signals |-> << "Comparison question" >> ]
         ELSE IF "tell_me_about" \in text.contains
         THEN [ intent |-> "exploratory", signals |-> << "Exploratory question" >> ]
         ELSE [ intent |-> "informational", signals |-> << "General question detected" >> ]
    ELSE IF text.first_word = "generation_verb"
         THEN [ intent |-> "meta", signals |-> << "Starts with generation verb" >> ]
         ELSE IF text.first_word = "how"
         THEN [ intent |-> "procedural", signals |-> << "Starts with 'how'" >> ]
         ELSE IF text.first_word = "question_word"
         THEN [ intent |-> "informational", signals |-> << "Starts with question word" >> ]
         ELSE IF text.first_word = "why"
         THEN [ intent |-> "troubleshooting", signals |-> << "Starts with 'why'" >> ]
         ELSE IF text.first_word = "which"
         THEN [ intent |-> "comparison", signals |-> << "Starts with 'which'" >> ]
         ELSE IF "book" \in text.contains
         THEN [ intent |-> "transactional", signals |-> << "Contains transaction verb" >> ]
         ELSE IF "login" \in text.contains
         THEN [ intent |-> "navigational", signals |-> << "Contains navigation term" >> ]
         ELSE [ intent |-> "informational", signals |-> << "Default classification" >> ]

\* the transaction score with the navigational rule left out
transaction_score_flat(best_intent, trans_score, comm_score, comp_score) ==
    IF best_intent = "transactional" THEN Min(1000, 600 + trans_score)
    ELSE IF best_intent = "commercial" THEN Min(800, 400 + comm_score)
    ELSE IF best_intent = "comparison" THEN Min(700, 350 + comp_score)
    ELSE IF best_intent \in {"opinion_seeking", "exploratory"}
         THEN Min(400, 200 + comm_score)
    ELSE Min(250, trans_score)

\* lines 375-391 of classify
transaction_score_of(best_intent, trans_score, comm_score, comp_score) ==
    IF best_intent = "transactional" THEN Min(1000, 600 + trans_score)
    ELSE IF best_intent = "commercial" THEN Min(800, 400 + comm_score)
    ELSE IF best_intent = "comparison" THEN Min(700, 350 + comp_score)
    ELSE IF best_intent = "navigational" /\ trans_score > 200
         THEN Min(500, 300 + trans_score)
    ELSE IF best_intent \in {"opinion_seeking", "exploratory"}
         THEN Min(400, 200 + comm_score)
    ELSE Min(250, trans_score)

\* IntentClassifierService.classify
classify(text) ==
    IF text.empty
    THEN [ intent |-> "informational", transaction_score |-> 0, confidence |-> 0,
           signals |-> << "Empty text - defaulting to informational" >> ]
    ELSE LET scores == pattern_scores(text)
             found == best_match(scores, 1,
                          [ intent |-> "informational", score |-> 0,
                            signals |-> << >> ])
             fallback == apply_fallback_rules(text)
             best == IF found.score < THRESHOLD
                     THEN [ intent |-> fallback.intent, score |-> FALLBACK_SCORE,
                            signals |-> fallback.signals ]
                     ELSE found
         IN [ intent            |-> best.intent,
              transaction_score |-> transaction_score_of(best.intent,
                                        scores["transactional"],
                                        scores["commercial"],
                                        scores["comparison"]),
              confidence        |-> Min(2000, 3 * best.score),
              signals           |-> best.signals ]

\* no pattern of any intent type matches
NoTotals == [t \in IntentTypes |-> 0]

\* ------------------------------------------------------------- the store
\* Prompt columns that the tasks below only read (set by the CSV import):
\*   1  "what is the price of extra baggage"
\*   2  "compare economy and premium seats on long flights to asia next summer"
\* with the values the source computes for these texts.
PromptTexts ==
    << [ word_count |-> 7, faq_stem |-> TRUE, pricing |-> TRUE, rate |-> FALSE,
         precision |-> FALSE, comparison |-> FALSE, technical |-> FALSE,
         policy |-> FALSE, key_words |-> 3,
         empty |-> FALSE, ends_question |-> FALSE, contains |-> {},
         first_word |-> "question_word",
         totals |-> [ NoTotals EXCEPT !["informational"] = 700,
                                      !["transactional"] = 500 ] ],
       [ word_count |-> 12, faq_stem |-> FALSE, pricing |-> FALSE, rate |-> FALSE,
         precision |-> FALSE, comparison |-> TRUE, technical |-> FALSE,
         policy |-> FALSE, key_words |-> 9,
         empty |-> FALSE, ends_question |-> FALSE, contains |-> {"best"},
         first_word |-> "other",
         totals |-> [ NoTotals EXCEPT !["commercial"] = 600,
                                      !["comparison"] = 800 ] ] >>
PromptPopularity == << Some(660), None >>
PromptSentiment == << None, Some(0 - 500) >>

raw_text(p) == PromptTexts[p]
popularity_score(p) == PromptPopularity[p]
sentiment_score(p) == PromptSentiment[p]

\* Page contents: how many key words of prompt p occur in the content of
\* page pg.  Page 1 mentions few of them, page 2 nearly all.
PageKeywordsFound == << << 1, 2 >>, << 3, 7 >> >>
exact_match(p, pg) ==
    check_exact_match(raw_text(p).key_words, PageKeywordsFound[pg][p])


VARIABLES
    store,             \* committed rows, per prompt: what any reader sees
    pending,           \* the running task's session: uncommitted rows per prompt
    pc,                \* position of the worker
    i,                 \* loop index of match_prompts_to_pages (0-based)
    page_data,         \* the run's page list (sequence of page ids)
    matched_count,
    opportunity_count,
    failed,            \* prompts whose processing raised in the current task
    returned,          \* per prompt, the matches the current run computed
    before,            \* per failed prompt, its committed rows when it failed
    previous,          \* per prompt the current run processed, the status and
                       \* best score it had before
    batch,             \* prompt ids handed to the current classification task
    tasks,             \* tasks started so far
    result,            \* return value of the last task
    call,              \* a call of classify_match_status on its own
    sessions           \* per concurrent matching run, its position and the
                       \* uncommitted writes of its database session

vars == << store, pending, pc, i, page_data, matched_count, opportunity_count,
           failed, returned, before, previous, batch, tasks, result, call,
           sessions >>

MatchStatuses == {"pending", "answered", "partial", "gap"}

\* the matching columns of one prompt and the rows hanging off it
Row(st, p) == [ match_status     |-> st.match_status[p],
                best_match_score |-> st.best_match_score[p],
                matches          |-> st.matches[p],
                opportunity      |-> st.opportunity[p] ]

\* what the session sees for prompt p: its own uncommitted writes, else the store
View(p) == IF pending[p] # << >> THEN pending[p][1] ELSE Row(store, p)

\* db.commit(): the session's writes become the committed rows
Committed(st, pend) ==
    [ st EXCEPT
        !.match_status = [p \in Prompts |->
            IF pend[p] # << >> THEN pend[p][1].match_status ELSE @[p]],
        !.best_match_score = [p \in Prompts |->
            IF pend[p] # << >> THEN pend[p][1].best_match_score ELSE @[p]],
        !.matches = [p \in Prompts |->
            IF pend[p] # << >> THEN pend[p][1].matches ELSE @[p]],
        !.opportunity = [p \in Prompts |->
            IF pend[p] # << >> THEN pend[p][1].opportunity ELSE @[p]] ]

NoPending == [p \in Prompts |-> << >>]
NoReturned == [p \in Prompts |-> << >>]
NoCall == [ best_score |-> None, status |-> "none" ]

\* Prompt rows as process_csv_import leaves them (csv_tasks.py lines 89-110):
\* match_status pending, no best score, no Match and no Opportunity row, the
\* intent columns as classified at import.  A prompt in nlp_missing instead
\* holds the column defaults: transaction_score is a nullable column
\* (models/prompt.py line 72) and readers guard against NULL
\* (api/competitive.py line 334).
ImportedStore(nlp_missing) ==
    [ match_status      |-> [p \in Prompts |-> "pending"],
      best_match_score  |-> [p \in Prompts |-> None],
      matches           |-> [p \in Prompts |-> << >>],
      opportunity       |-> [p \in Prompts |-> << >>],
      intent_label      |-> [p \in Prompts |->
                               IF p \in nlp_missing THEN "informational"
                               ELSE classify(raw_text(p)).intent],
      transaction_score |-> [p \in Prompts |->
                               IF p \in nlp_missing THEN None
                               ELSE Some(classify(raw_text(p)).transaction_score)] ]

\* the workers that can run match_prompts_to_pages at the same time
\* (api/projects.py lines 419-436 start a task without looking for another)
Runs == {1, 2}

\* a worker that has not started its run
NoSession == [ pc |-> "idle", i |-> 0, page_data |-> << >>, writes |-> NoPending ]
NoSessions == [r \in Runs |-> NoSession]

InitLocals ==
    /\ sessions = NoSessions
    /\ pending = NoPending
    /\ pc = "idle"
    /\ i = 0
    /\ page_data = << >>
    /\ matched_count = 0
    /\ opportunity_count = 0
    /\ failed = {}
    /\ returned = NoReturned
    /\ before = NoReturned
    /\ previous = NoReturned
    /\ batch = {}
    /\ tasks = 0
    /\ result = [ status |-> "none" ]

Init ==
    /\ store \in { ImportedStore(nlp_missing) : nlp_missing \in SUBSET Prompts }
    /\ InitLocals
    /\ call = NoCall
\* ------------------------------------------------------------ matcher task
\* the page rows of the project in id order (the query of lines 70-73)
RECURSIVE PageList(_)
PageList(pgs) ==
    IF pgs = {} THEN << >>
    ELSE LET first == CHOOSE a \in pgs : \A b \in pgs : a <= b
         IN << first >> \o PageList(pgs \ {first})

\* outcome of the optional LLM call made by _generate_content_suggestion
LLMOutcomes == {"disabled", "no_answer", "payload", "raises"}

\* _generate_content_suggestion with the failure of the LLM call showing in
\* the suggestion
generate_content_suggestion_leaky(llm) ==
    IF llm = "payload" THEN "llm" ELSE IF llm = "raises" THEN "error" ELSE "empty"

\* _generate_content_suggestion: {} unless the LLM is enabled and answers;
\* an exception of the LLM call is caught (lines 49-50)
generate_content_suggestion(llm) == IF llm = "payload" THEN "llm" ELSE "empty"

\* rank=str(match_result.rank)
str(n) == << "1", "2", "3", "4", "5" >>[n]

\* the Match rows built from the MatchResults (lines 135-144)
MatchRows(matches) ==
    [k \in 1..Len(matches) |->
        [ page_id          |-> matches[k].page_id,
          similarity_score |-> matches[k].similarity_score,
          match_type       |-> matches[k].match_type,
          rank             |-> str(matches[k].rank) ]]

\* best_score as the loop of lines 134-147 leaves it
RECURSIVE best_score_from(_, _, _)
best_score_from(matches, k, best_score) ==
    IF k > Len(matches) THEN best_score
    ELSE best_score_from(matches, k + 1,
            IF IsNone(best_score) \/ matches[k].similarity_score > Val(best_score)
            THEN Some(matches[k].similarity_score) ELSE best_score)

\* the old Match rows are left in place
delete_matches_skipped(rows) == rows

\* db.query(Match).filter(Match.prompt_id == prompt.id).delete()   (line 131)
delete_matches(rows) == << >>

\* the old Opportunity row is left in place
delete_opportunity_skipped(rows, match_status) == rows

\* db.query(Opportunity).filter(...).delete(), executed only inside the
\* gap/partial branch (lines 155-157)
delete_opportunity(rows, match_status) ==
    IF match_status \in {"gap", "partial"} THEN << >> ELSE rows

\* has_related_pages always False, the default of the parameter
bool_ignored(matches) == FALSE

\* has_related_pages=bool(matches)   (lines 167 and 268)
bool(matches) == Len(matches) > 0

\* [str(m.page_id) for m in matches[:3]]
related_page_ids(matches) ==
    [k \in 1..Min(3, Len(matches)) |-> matches[k].page_id]

\* the Opportunity row built at lines 177-187 and 278-288
OpportunityRow(p, opp_data, matches, content_suggestion) ==
    [ prompt_id          |-> p,
      priority_score     |-> opp_data.priority_score,
      difficulty_score   |-> opp_data.difficulty_score,
      difficulty_factors |-> opp_data.difficulty_factors,
      recommended_action |-> opp_data.recommended_action,
      reason             |-> opp_data.reason,
      status             |-> "new",
      related_page_ids   |-> related_page_ids(matches),
      content_suggestion |-> content_suggestion ]

\* match_prompts_to_pages, lines 66-118: open the session, load the pages
\* that have an embedding; without any the task returns at once.
StartMatching(pgs) ==
    /\ pc = "idle"
    /\ tasks < MaxTasks
    /\ tasks' = tasks + 1
    /\ page_data' = PageList(pgs)
    /\ IF pgs = {}
       THEN /\ pc' = "match_done"
            /\ result' = [ error |-> "No pages to match against" ]
       ELSE /\ pc' = "matching"
            /\ UNCHANGED result
    /\ UNCHANGED << store, pending, i, matched_count, opportunity_count,
                    failed, returned, before, previous, batch, call, sessions >>

\* One iteration of the loop, lines 120-205, for prompt number i.
\* sim[pg] is the similarity of the prompt's and page pg's embeddings, order
\* the outcome of np.argsort on the page similarities, llm the outcome of
\* the optional LLM call.  self.update_state (line 194) is taken to succeed.
MatchPrompt(sim, order, llm) ==
    /\ pc = "matching"
    /\ i < NumPrompts
    /\ LET prompt == i + 1
           old == View(prompt)
           matches == find_matches_in_memory(sim,
                          [pg \in Pages |-> exact_match(prompt, pg)],
                          page_data, TOP_K, order)
           best_score == best_score_from(matches, 1, None)
           match_status == classify_match_status(best_score)
           wanted == match_status \in {"gap", "partial"}
           raises == wanted /\
                     generate_opportunity_raises(store.transaction_score[prompt])
           kept == delete_opportunity(old.opportunity, match_status)
           opp_data == generate_opportunity(raw_text(prompt),
                           popularity_score(prompt),
                           store.transaction_score[prompt],
                           sentiment_score(prompt),
                           match_status, best_score, bool(matches))
           opportunity ==
               IF wanted /\ ~raises
               THEN kept \o << OpportunityRow(prompt, opp_data, matches,
                                   generate_content_suggestion(llm)) >>
               ELSE kept
           written == [ pending EXCEPT ![prompt] =
                          << [ match_status     |-> match_status,
                               best_match_score |-> best_score,
                               matches          |-> delete_matches(old.matches)
                                                    \o MatchRows(matches),
                               opportunity      |-> opportunity ] >> ]
           commits == ~raises /\ i % COMMIT_EVERY = 0
       IN /\ store' = IF commits THEN Committed(store, written) ELSE store
          /\ pending' = IF commits THEN NoPending ELSE written
          /\ matched_count' = matched_count + 1
          /\ opportunity_count' = IF wanted /\ ~raises
                                  THEN opportunity_count + 1
                                  ELSE opportunity_count
          /\ failed' = IF raises
                       THEN failed \cup {prompt} ELSE failed
          /\ before' = IF raises
                       THEN [ before EXCEPT ![prompt] = << Row(store, prompt) >> ]
                       ELSE before
          /\ returned' = [ returned EXCEPT ![prompt] = << matches >> ]
          /\ previous' = [ previous EXCEPT ![prompt] =
                            << [ match_status     |-> old.match_status,
                                 best_match_score |-> old.best_match_score ] >> ]
    /\ i' = i + 1
    /\ UNCHANGED << pc, page_data, batch, tasks, result, call, sessions >>

\* lines 207-219: the final commit and the task's return value
FinishMatching ==
    /\ pc = "matching"
    /\ i = NumPrompts
    /\ store' = Committed(store, pending)
    /\ pending' = NoPending
    /\ result' = [ status        |-> "completed",
                   matched       |-> matched_count,
                   opportunities |-> opportunity_count ]
    /\ pc' = "match_done"
    /\ UNCHANGED << i, page_data, matched_count, opportunity_count, failed,
                    returned, before, previous, batch, tasks, call, sessions >>

\* finally: db.close() -- uncommitted writes are discarded; the return value
\* has gone to the caller and the worker is free
Close ==
    /\ pc \in {"match_done", "regen_done", "classify_done", "import_done"}
    /\ pc' = "idle"
    /\ pending' = NoPending
    /\ i' = 0
    /\ page_data' = << >>
    /\ matched_count' = 0
    /\ opportunity_count' = 0
    /\ failed' = {}
    /\ returned' = NoReturned
    /\ before' = NoReturned
    /\ previous' = NoReturned
    /\ batch' = {}
    /\ result' = [ status |-> "none" ]
    /\ UNCHANGED << store, tasks, call, sessions >>

\* ------------------------------------------------ regenerate_opportunities
\* the prompts selected at lines 244-247
RegenPrompts(st) == { p \in Prompts : st.match_status[p] \in {"gap", "partial"} }

\* lines 232-253: select the gap/partial prompts, delete their Opportunity
\* rows and commit
RegenDelete ==
    /\ pc = "idle"
    /\ tasks < MaxTasks
    /\ tasks' = tasks + 1
    /\ store' = [ store EXCEPT !.opportunity = [p \in Prompts |->
                    IF p \in RegenPrompts(store) THEN << >> ELSE @[p]] ]
    /\ pc' = "regen"
    /\ UNCHANGED << pending, i, page_data, matched_count, opportunity_count,
                    failed, returned, before, previous, batch, result, call, sessions >>

\* lines 255-297: build one Opportunity per selected prompt from its stored
\* matches, then commit.  Nothing catches an exception of this loop: the
\* task ends and the session is closed without a commit.
RegenCreate(llm) ==
    /\ pc = "regen"
    /\ LET prompts == RegenPrompts(store)
           raising == { p \in prompts :
                          generate_opportunity_raises(store.transaction_score[p]) }
           opp_data(p) == generate_opportunity(raw_text(p),
                              popularity_score(p), store.transaction_score[p],
                              sentiment_score(p), store.match_status[p],
                              store.best_match_score[p],
                              bool(store.matches[p]))
       IN IF raising # {}
          THEN /\ failed' = raising
               /\ result' = [ status |-> "raised" ]
               /\ UNCHANGED << store, opportunity_count >>
          ELSE /\ store' = [ store EXCEPT !.opportunity = [p \in Prompts |->
                               IF p \in prompts
                               THEN @[p] \o << OpportunityRow(p, opp_data(p),
                                        store.matches[p],
                                        generate_content_suggestion(llm[p])) >>
                               ELSE @[p]] ]
               /\ opportunity_count' = Cardinality(prompts)
               /\ result' = [ status        |-> "completed",
                              opportunities |-> Cardinality(prompts) ]
               /\ UNCHANGED failed
    /\ pc' = "regen_done"
    /\ UNCHANGED << pending, i, page_data, matched_count, returned, before,
                    previous, batch, tasks, call, sessions >>

\* --------------------------------------------------------- classification
\* the classification loop that also drops the Opportunity rows
classify_prompts_dropping(st, prompt_ids) ==
    [ st EXCEPT
        !.intent_label = [p \in Prompts |->
            IF p \in prompt_ids THEN classify(raw_text(p)).intent ELSE @[p]],
        !.transaction_score = [p \in Prompts |->
            IF p \in prompt_ids THEN Some(classify(raw_text(p)).transaction_score)
            ELSE @[p]],
        !.opportunity = [p \in Prompts |->
            IF p \in prompt_ids THEN << >> ELSE @[p]] ]

\* the classification loop that also sets match_status back to pending
classify_prompts_resetting(st, prompt_ids) ==
    [ st EXCEPT
        !.intent_label = [p \in Prompts |->
            IF p \in prompt_ids THEN classify(raw_text(p)).intent ELSE @[p]],
        !.transaction_score = [p \in Prompts |->
            IF p \in prompt_ids THEN Some(classify(raw_text(p)).transaction_score)
            ELSE @[p]],
        !.match_status = [p \in Prompts |->
            IF p \in prompt_ids THEN "pending" ELSE @[p]] ]

\* the writes of the classification loops (nlp_tasks.py lines 37-40,
\* api/prompts.py lines 506-508, csv_tasks.py lines 108-110 and 211-213):
\* prompt.intent_label and prompt.transaction_score from classify(raw_text)
classify_prompts(st, prompt_ids) ==
    [ st EXCEPT
        !.intent_label = [p \in Prompts |->
            IF p \in prompt_ids THEN classify(raw_text(p)).intent ELSE @[p]],
        !.transaction_score = [p \in Prompts |->
            IF p \in prompt_ids THEN Some(classify(raw_text(p)).transaction_score)
            ELSE @[p]] ]

\* classify_intent_batch (nlp_tasks.py lines 23-47).  raising is the set of
\* prompts of the batch whose classification raises; the loop has no
\* try/except, so an exception ends the task before db.commit().
ClassifyIntentBatch(prompt_ids, raising) ==
    /\ pc = "idle"
    /\ tasks < MaxTasks
    /\ tasks' = tasks + 1
    /\ batch' = prompt_ids
    /\ failed' = raising
    /\ IF raising # {}
       THEN /\ result' = [ status |-> "raised" ]
            /\ UNCHANGED store
       ELSE /\ store' = classify_prompts(store, prompt_ids)
            /\ result' = [ status    |-> "completed",
                           processed |-> Cardinality(prompt_ids) ]
    /\ pc' = "classify_done"
    /\ UNCHANGED << pending, i, page_data, matched_count, opportunity_count,
                    returned, before, previous, call, sessions >>

\* reclassify_all_prompts (api/prompts.py lines 288-328): the same loop over
\* every prompt of the project, one commit at the end.
ReclassifyAll(raising) ==
    /\ pc = "idle"
    /\ tasks < MaxTasks
    /\ tasks' = tasks + 1
    /\ batch' = Prompts
    /\ failed' = raising
    /\ IF raising # {}
       THEN /\ result' = [ status |-> "raised" ]
            /\ UNCHANGED store
       ELSE /\ store' = classify_prompts(store, Prompts)
            /\ result' = [ message       |-> "Reclassified prompts",
                           updated_count |-> Cardinality(Prompts) ]
    /\ pc' = "classify_done"
    /\ UNCHANGED << pending, i, page_data, matched_count, opportunity_count,
                    returned, before, previous, call, sessions >>

\* process_csv_import (csv_tasks.py lines 30-183) run again on the CSV the
\* prompts came from: every row finds its existing prompt (lines 70-75) and
\* updates it in place, the intent columns included (lines 108-110);
\* match_status is set only for a new prompt (line 100).  A row that raises
\* is skipped (lines 119-121); the batch is committed at line 138.
process_csv_import(failing) ==
    /\ pc = "idle"
    /\ tasks < MaxTasks
    /\ tasks' = tasks + 1
    /\ batch' = Prompts
    /\ failed' = failing
    /\ store' = classify_prompts(store, Prompts \ failing)
    /\ result' = [ status    |-> "completed",
                   processed |-> Cardinality(Prompts \ failing),
                   updated   |-> Cardinality(Prompts \ failing),
                   new       |-> 0,
                   failed    |-> Cardinality(failing) ]
    /\ pc' = "import_done"
    /\ UNCHANGED << pending, i, page_data, matched_count, opportunity_count,
                    returned, before, previous, call, sessions >>

\* ------------------------------------------------------ opportunities API
OpportunityStatuses == {"new", "in_progress", "resolved", "dismissed"}

\* update_opportunity (api/opportunities.py lines 189-208): an external actor
\* sets the workflow status of the Opportunity of prompt p; 404 without a row.
update_opportunity(p, status) ==
    /\ pc = "idle"
    /\ tasks < MaxTasks
    /\ store.opportunity[p] # << >>
    /\ tasks' = tasks + 1
    /\ store' = [ store EXCEPT !.opportunity[p][1].status = status ]
    /\ UNCHANGED << pending, pc, i, page_data, matched_count, opportunity_count,
                    failed, returned, before, previous, batch, result, call, sessions >>

Next ==
    \/ \E pgs \in PageCorpora : StartMatching(pgs)
    \/ \E sim \in [Pages -> SimValues], llm \in LLMOutcomes :
          \E order \in argsort_outcomes(page_similarities(sim, page_data)) :
              MatchPrompt(sim, order, llm)
    \/ FinishMatching
    \/ RegenDelete
    \/ \E llm \in [Prompts -> LLMOutcomes] : RegenCreate(llm)
    \/ \E prompt_ids \in SUBSET Prompts, raising \in SUBSET Prompts :
          raising \subseteq prompt_ids /\ ClassifyIntentBatch(prompt_ids, raising)
    \/ \E raising \in SUBSET Prompts : ReclassifyAll(raising)
    \/ \E failing \in SUBSET Prompts : process_csv_import(failing)
    \/ \E p \in Prompts, status \in OpportunityStatuses : update_opportunity(p, status)
    \/ Close

Spec == Init /\ [][Next]_vars

\* ------------------------------------- classify_match_status on its own
BestScores == {None} \cup { Some(v) : v \in 0..MaxScore }

InitClassify ==
    /\ store = ImportedStore({})
    /\ InitLocals
    /\ call \in { [ best_score |-> b, status |-> "none" ] : b \in BestScores }

ClassifyCall ==
    /\ call.status = "none"
    /\ call' = [ call EXCEPT !.status = classify_match_status(call.best_score) ]
    /\ UNCHANGED << store, pending, pc, i, page_data, matched_count,
                    opportunity_count, failed, returned, before, previous, batch,
                    tasks, result, sessions >>

NextClassify == ClassifyCall

SpecClassify == InitClassify /\ [][NextClassify]_vars
\* ------------------------- similarity and find_most_similar on their own
Cosines == {0 - 200, 0, 600}
Candidates == {None} \cup { Some(c) : c \in Cosines }
CandidateLists == UNION { [1..n -> Candidates] : n \in 0..MaxCandidates }
TopKs == {1, 2, TOP_K * 2}

InitSimilar ==
    /\ store = ImportedStore({})
    /\ InitLocals
    /\ call \in { [ fn |-> "none", query_zero |-> q, candidates |-> cs,
                     top_k |-> k, result |-> << >> ] :
                   q \in BOOLEAN, cs \in CandidateLists, k \in TopKs }

\* similarity(query, first candidate)
SimilarityCall ==
    /\ call.fn = "none"
    /\ Len(call.candidates) >= 1
    /\ call' = [ call EXCEPT
                   !.fn = "similarity",
                   !.result = << similarity(call.query_zero, call.candidates[1]) >> ]
    /\ UNCHANGED << store, pending, pc, i, page_data, matched_count,
                    opportunity_count, failed, returned, before, previous, batch,
                    tasks, result, sessions >>

\* find_most_similar(query, candidates, top_k)
FindMostSimilarCall(order) ==
    /\ call.fn = "none"
    /\ call' = [ call EXCEPT
                   !.fn = "find_most_similar",
                   !.result = find_most_similar(
                       normalized_similarities(call.query_zero, call.candidates),
                       call.top_k, order) ]
    /\ UNCHANGED << store, pending, pc, i, page_data, matched_count,
                    opportunity_count, failed, returned, before, previous, batch,
                    tasks, result, sessions >>

NextSimilar ==
    \/ SimilarityCall
    \/ \E order \in argsort_outcomes(
              normalized_similarities(call.query_zero, call.candidates)) :
          FindMostSimilarCall(order)

SpecSimilar == InitSimilar /\ [][NextSimilar]_vars

\* ------------------------------ one MatchResult of the matcher on its own
InitMatchResult ==
    /\ store = ImportedStore({})
    /\ InitLocals
    /\ call \in { [ fn |-> "none", raw_similarity |-> v, key_words |-> w,
                     found |-> f, result |-> << >> ] :
                   v \in 0..MaxScore, w \in 0..MaxWords, f \in 0..MaxWords }
    /\ call.found <= call.key_words

\* the loop body of find_matches_in_memory for the page of rank 1
MatchResultCall ==
    /\ call.fn = "none"
    /\ call' = [ call EXCEPT
                   !.fn = "MatchResult",
                   !.result = << MatchResult(1, call.raw_similarity,
                                     check_exact_match(call.key_words, call.found),
                                     1) >> ]
    /\ UNCHANGED << store, pending, pc, i, page_data, matched_count,
                    opportunity_count, failed, returned, before, previous, batch,
                    tasks, result, sessions >>

NextMatchResult == MatchResultCall

SpecMatchResult == InitMatchResult /\ [][NextMatchResult]_vars
\* ----------------------------------------------------- classify on its own
\* the sums of the weights of at most n matched patterns
RECURSIVE TotalsUpTo(_, _)
TotalsUpTo(weights, n) ==
    IF n = 0 THEN {0}
    ELSE TotalsUpTo(weights, n - 1)
           \cup { t + w : t \in TotalsUpTo(weights, n - 1), w \in weights }

\* the empty text
EmptyText ==
    [ empty |-> TRUE, totals |-> NoTotals, ends_question |-> FALSE,
      contains |-> {}, first_word |-> "other" ]

\* texts that match patterns of the intent types a and b only
TwoTypeTexts(a, b) ==
    { [ empty |-> FALSE,
        totals |-> [ NoTotals EXCEPT ![a] = ta, ![b] = tb ],
        ends_question |-> FALSE, contains |-> {}, first_word |-> "other" ] :
      ta \in TotalsUpTo(PatternWeights(a), MaxMatches),
      tb \in TotalsUpTo(PatternWeights(b), MaxMatches) }

\* texts that match patterns of at most two intent types
PatternTexts ==
    UNION { TwoTypeTexts(priority_order[ab[1]], priority_order[ab[2]]) :
              ab \in { xy \in (1..Len(priority_order)) \X (1..Len(priority_order)) :
                          xy[1] <= xy[2] } }

\* texts on which no intent type reaches the threshold
FallbackTexts ==
    { [ empty |-> FALSE, totals |-> tot, ends_question |-> q,
        contains |-> c, first_word |-> f ] :
      tot \in { NoTotals, [ NoTotals EXCEPT !["navigational"] = 400 ] },
      q \in BOOLEAN, c \in SUBSET FallbackTerms, f \in FirstWords }

InitIntent ==
    /\ store = ImportedStore({})
    /\ InitLocals
    /\ call \in { [ fn |-> "none", text |-> t, result |-> << >> ] :
                   t \in {EmptyText} \cup PatternTexts \cup FallbackTexts }

\* intent_classifier.classify(text)
IntentClassifyCall ==
    /\ call.fn = "none"
    /\ call' = [ call EXCEPT !.fn = "classify",
                             !.result = << classify(call.text) >> ]
    /\ UNCHANGED << store, pending, pc, i, page_data, matched_count,
                    opportunity_count, failed, returned, before, previous, batch,
                    tasks, result, sessions >>

NextIntent == IntentClassifyCall

SpecIntent == InitIntent /\ [][NextIntent]_vars
\* ---------------------------------------- generate_opportunity on its own
ScoreGrid == {0, 250, 500, 750, 1000}
OptionalScores == {None} \cup { Some(v) : v \in ScoreGrid }
SentimentScores == {None, Some(0 - 500), Some(0), Some(800)}
\* popularity_score: the grid and a value near 0
PopularityScores == OptionalScores \cup {Some(10)}
\* transaction_score: the grid and the threshold itself
TransactionScores == OptionalScores \cup {Some(TRANSACTIONAL_THRESHOLD)}
\* prompt_text: the texts of the store and two more,
\*   "baggage"                       (one word, no keyword of any list)
\*   "visa api for corporate rates"  (technical keywords, contains "rate")
OpportunityTexts ==
    { raw_text(p) : p \in Prompts } \cup
    { [ word_count |-> 1, faq_stem |-> FALSE, pricing |-> FALSE, rate |-> FALSE,
        precision |-> FALSE, comparison |-> FALSE, technical |-> FALSE,
        policy |-> FALSE, key_words |-> 1,
        empty |-> FALSE, ends_question |-> FALSE, contains |-> {},
        first_word |-> "other", totals |-> NoTotals ],
      [ word_count |-> 5, faq_stem |-> FALSE, pricing |-> FALSE, rate |-> TRUE,
        precision |-> FALSE, comparison |-> FALSE, technical |-> TRUE,
        policy |-> FALSE, key_words |-> 4,
        empty |-> FALSE, ends_question |-> FALSE, contains |-> {},
        first_word |-> "other", totals |-> NoTotals ] }
\* match_status is a plain str parameter: the enum values and any other string
StatusStrings == MatchStatuses \cup {"unknown"}

InitOpportunity ==
    /\ store = ImportedStore({})
    /\ InitLocals
    /\ call \in { [ fn |-> "none", text |-> text,
                     popularity_score |-> pop, transaction_score |-> t,
                     sentiment_score |-> sent, match_status |-> st,
                     best_match_score |-> best, has_related_pages |-> rel,
                     result |-> << >> ] :
                   text \in OpportunityTexts, pop \in PopularityScores,
                   t \in TransactionScores,
                   sent \in SentimentScores, st \in StatusStrings,
                   best \in OptionalScores, rel \in BOOLEAN }

\* opportunity_generator.generate_opportunity(...); a transaction_score of
\* None raises TypeError
GenerateOpportunityCall ==
    /\ call.fn = "none"
    /\ call' = IF generate_opportunity_raises(call.transaction_score)
               THEN [ call EXCEPT !.fn = "raised" ]
               ELSE [ call EXCEPT
                        !.fn = "generate_opportunity",
                        !.result = << generate_opportunity(call.text,
                                         call.popularity_score,
                                         call.transaction_score,
                                         call.sentiment_score, call.match_status,
                                         call.best_match_score,
                                         call.has_related_pages) >> ]
    /\ UNCHANGED << store, pending, pc, i, page_data, matched_count,
                    opportunity_count, failed, returned, before, previous, batch,
                    tasks, result, sessions >>

NextOpportunity == GenerateOpportunityCall

SpecOpportunity == InitOpportunity /\ [][NextOpportunity]_vars
\* ------------------------------------ two matching runs at the same time
\* Two workers run match_prompts_to_pages on the same project, each with its
\* own session (line 66) on a READ COMMITTED database: a statement sees the
\* rows committed when it starts, a DELETE or UPDATE waits for a transaction
\* that has the row locked.  A worker's loop iteration is cut at the
\* statements that reach the database: the DELETE of line 131, the DELETE of
\* line 157 (before which the session flushes the Match rows and the UPDATE
\* of the prompt) and the commit of line 193.  Rows carry the run that
\* inserted them.  The prompts are classified (no exception of the
\* generator) and the LLM is disabled.
OwnedBy(rows, r) == [k \in 1..Len(rows) |-> [ row |-> rows[k], run |-> r ]]

\* the runs whose rows are in a list of stored rows
Owners(rows) == { rows[k].run : k \in 1..Len(rows) }

\* the stored rows left by a DELETE that hit the rows of the runs in deleted
RECURSIVE Remaining(_, _)
Remaining(rows, deleted) ==
    IF rows = << >> THEN << >>
    ELSE (IF rows[1].run \in deleted THEN << >> ELSE << rows[1] >>)
         \o Remaining(Tail(rows), deleted)

\* another session holds the row lock of prompt p: it has flushed its UPDATE
PromptLocked(r, p) ==
    \E r2 \in Runs \ {r} :
        /\ sessions[r2].writes[p] # << >>
        /\ sessions[r2].writes[p][1].flushed

\* another session has deleted, and not yet committed, some of these rows
RowsLocked(r, p, rows, column) ==
    \E r2 \in Runs \ {r} :
        /\ sessions[r2].writes[p] # << >>
        /\ sessions[r2].writes[p][1][column] \cap Owners(rows) # {}

\* db.commit() of session r: its deletes and inserts reach the store
CommittedBy(st, r) ==
    LET w(p) == sessions[r].writes[p][1]
        written(p) == sessions[r].writes[p] # << >>
    IN [ st EXCEPT
           !.match_status = [p \in Prompts |->
               IF written(p) THEN w(p).match_status ELSE @[p]],
           !.best_match_score = [p \in Prompts |->
               IF written(p) THEN w(p).best_match_score ELSE @[p]],
           !.matches = [p \in Prompts |->
               IF written(p)
               THEN Remaining(@[p], w(p).deleted_matches) \o w(p).matches
               ELSE @[p]],
           !.opportunity = [p \in Prompts |->
               IF written(p)
               THEN Remaining(@[p], w(p).deleted_opportunity) \o w(p).opportunity
               ELSE @[p]] ]

\* the commit has to flush the UPDATE of a prompt another session has locked
CommitBlocked(r) ==
    \E p \in Prompts :
        /\ sessions[r].writes[p] # << >>
        /\ ~sessions[r].writes[p][1].flushed
        /\ PromptLocked(r, p)

\* lines 66-118: the task starts, loads the pages that have an embedding
\* (pgs, the crawl may add pages between two runs) and the prompts; without
\* pages it returns at once
StartRun(r, pgs) ==
    /\ sessions[r].pc = "idle"
    /\ sessions' = [ sessions EXCEPT ![r] =
                       [ pc |-> IF pgs = {} THEN "done" ELSE "delete_matches",
                         i |-> 0,
                         page_data |-> PageList(pgs), writes |-> NoPending ] ]
    /\ UNCHANGED << store, pending, pc, i, page_data, matched_count,
                    opportunity_count, failed, returned, before, previous, batch,
                    tasks, result, call >>

\* lines 122-152 for prompt number i: the matches are computed, the Match
\* rows the DELETE of line 131 sees are deleted, the new rows and the new
\* status are held by the session
LoopDeleteMatches(r, sim, order) ==
    /\ sessions[r].pc = "delete_matches"
    /\ sessions[r].i < NumPrompts
    /\ LET prompt == sessions[r].i + 1
           visible == store.matches[prompt]
           matches == find_matches_in_memory(sim,
                          [pg \in Pages |-> exact_match(prompt, pg)],
                          sessions[r].page_data, TOP_K, order)
           best_score == best_score_from(matches, 1, None)
           match_status == classify_match_status(best_score)
       IN /\ ~RowsLocked(r, prompt, visible, "deleted_matches")
          /\ sessions' = [ sessions EXCEPT
                 ![r].writes[prompt] =
                     << [ match_status        |-> match_status,
                          best_match_score    |-> best_score,
                          returned            |-> matches,
                          matches             |-> OwnedBy(MatchRows(matches), r),
                          deleted_matches     |-> Owners(visible),
                          flushed             |-> FALSE,
                          opportunity         |-> << >>,
                          deleted_opportunity |-> {} ] >>,
                 ![r].pc = IF match_status \in {"gap", "partial"}
                           THEN "delete_opportunity" ELSE "commit" ]
    /\ UNCHANGED << store, pending, pc, i, page_data, matched_count,
                    opportunity_count, failed, returned, before, previous, batch,
                    tasks, result, call >>

\* lines 155-189: the query of line 157 flushes the session (the UPDATE of
\* the prompt takes its row lock), deletes the Opportunity rows it sees, and
\* the new Opportunity is added to the session
LoopDeleteOpportunity(r) ==
    /\ sessions[r].pc = "delete_opportunity"
    /\ LET prompt == sessions[r].i + 1
           w == sessions[r].writes[prompt][1]
           visible == store.opportunity[prompt]
           opp_data == generate_opportunity(raw_text(prompt),
                           popularity_score(prompt),
                           store.transaction_score[prompt],
                           sentiment_score(prompt),
                           w.match_status, w.best_match_score, bool(w.returned))
       IN /\ ~PromptLocked(r, prompt)
          /\ ~RowsLocked(r, prompt, visible, "deleted_opportunity")
          /\ sessions' = [ sessions EXCEPT
                 ![r].writes[prompt] =
                     << [ w EXCEPT
                            !.flushed = TRUE,
                            !.deleted_opportunity = Owners(visible),
                            !.opportunity =
                                OwnedBy(<< OpportunityRow(prompt, opp_data,
                                              w.returned,
                                              generate_content_suggestion("disabled")) >>,
                                        r) ] >>,
                 ![r].pc = "commit" ]
    /\ UNCHANGED << store, pending, pc, i, page_data, matched_count,
                    opportunity_count, failed, returned, before, previous, batch,
                    tasks, result, call >>

\* lines 191-202: the commit of every 50th prompt, and on to the next prompt
LoopCommit(r) ==
    /\ sessions[r].pc = "commit"
    /\ IF sessions[r].i % COMMIT_EVERY = 0
       THEN /\ ~CommitBlocked(r)
            /\ store' = CommittedBy(store, r)
            /\ sessions' = [ sessions EXCEPT ![r].writes = NoPending,
                                             ![r].i = @ + 1,
                                             ![r].pc = "delete_matches" ]
       ELSE /\ sessions' = [ sessions EXCEPT ![r].i = @ + 1,
                                             ![r].pc = "delete_matches" ]
            /\ UNCHANGED store
    /\ UNCHANGED << pending, pc, i, page_data, matched_count,
                    opportunity_count, failed, returned, before, previous, batch,
                    tasks, result, call >>

\* lines 207-222: the final commit; the session is closed
FinishRun(r) ==
    /\ sessions[r].pc = "delete_matches"
    /\ sessions[r].i = NumPrompts
    /\ ~CommitBlocked(r)
    /\ store' = CommittedBy(store, r)
    /\ sessions' = [ sessions EXCEPT ![r].writes = NoPending, ![r].pc = "done" ]
    /\ UNCHANGED << pending, pc, i, page_data, matched_count,
                    opportunity_count, failed, returned, before, previous, batch,
                    tasks, result, call >>

InitInterleave ==
    /\ store = ImportedStore({})
    /\ InitLocals
    /\ call = NoCall

NextInterleave ==
    \/ \E r \in Runs, pgs \in PageCorpora : StartRun(r, pgs)
    \/ \E r \in Runs, sim \in [Pages -> SimValues] :
          \E order \in argsort_outcomes(page_similarities(sim, sessions[r].page_data)) :
              LoopDeleteMatches(r, sim, order)
    \/ \E r \in Runs : LoopDeleteOpportunity(r)
    \/ \E r \in Runs : LoopCommit(r)
    \/ \E r \in Runs : FinishRun(r)

SpecInterleave == InitInterleave /\ [][NextInterleave]_vars
\* =================================================================== claims
Processed(p) == pc \in {"matching", "match_done"} /\ returned[p] # << >>
RunMatches(p) == returned[p][1]
RunCompleted == pc = "match_done" /\ "status" \in DOMAIN result

\* C1: between tasks, a prompt has an Opportunity row only if its
\* match_status is gap or partial (a run that makes it answered removes the
\* row).
C1_OpportunityOnlyForGapOrPartial ==
    pc \in {"idle", "match_done"} =>
        \A p \in Prompts :
            store.opportunity[p] # << >> =>
                store.match_status[p] \in {"gap", "partial"}

\* C2: in every committed state a gap/partial prompt has exactly one
\* Opportunity and it was built from the prompt's committed matches, status
\* and best score: no reader sees the rows of a prompt half replaced.
C2_NoPartialReplacementVisible ==
    \A p \in Prompts :
        store.match_status[p] \in {"gap", "partial"} =>
            /\ Len(store.opportunity[p]) = 1
            /\ store.opportunity[p][1].related_page_ids
                   = related_page_ids(store.matches[p])
            /\ store.opportunity[p][1].difficulty_factors.needs_new_page
                   = (store.match_status[p] = "gap" /\ store.matches[p] = << >>)

\* C3: once a run has processed a prompt without error and classified it gap
\* or partial, the prompt has exactly one Opportunity, a new row whose
\* priority, difficulty, action and reason are those computed from this
\* run's status, best score and matches.
C3_OneFreshOpportunity ==
    \A p \in Prompts :
        ( /\ Processed(p)
          /\ p \notin failed
          /\ View(p).match_status \in {"gap", "partial"} ) =>
            /\ Len(View(p).opportunity) = 1
            /\ LET o == View(p).opportunity[1]
                   opp_data == generate_opportunity(raw_text(p),
                                   popularity_score(p), store.transaction_score[p],
                                   sentiment_score(p), View(p).match_status,
                                   View(p).best_match_score,
                                   Len(RunMatches(p)) > 0)
               IN /\ o.prompt_id = p
                  /\ o.status = "new"
                  /\ o.priority_score = opp_data.priority_score
                  /\ o.difficulty_score = opp_data.difficulty_score
                  /\ o.difficulty_factors = opp_data.difficulty_factors
                  /\ o.recommended_action = opp_data.recommended_action
                  /\ o.reason = opp_data.reason
                  /\ o.related_page_ids = related_page_ids(RunMatches(p))

\* C3 witness: a finished run re-processed a prompt that was gap or partial
\* before (so had an Opportunity) and left it partial with one Opportunity.
C3_Witness ==
    \E p \in Prompts :
        /\ RunCompleted
        /\ p \notin failed
        /\ Processed(p)
        /\ previous[p][1].match_status \in {"gap", "partial"}
        /\ store.match_status[p] = "partial"
        /\ Len(store.opportunity[p]) = 1

C5_ClassificationSkipsFailures ==
    pc = "classify_done" =>
        /\ \A p \in batch \ failed :
              /\ store.intent_label[p] = classify(raw_text(p)).intent
              /\ store.transaction_score[p]
                     = Some(classify(raw_text(p)).transaction_score)
        /\ "processed" \in DOMAIN result
        /\ "failed" \in DOMAIN result

\* C6: once a run has processed a prompt, the prompt's Match rows are exactly
\* the rows of the matches that run returned, and its match_status and
\* best_match_score are that run's values.
C6_MatchesFullyReplaced ==
    \A p \in Prompts :
        Processed(p) =>
            /\ View(p).matches = MatchRows(RunMatches(p))
            /\ View(p).best_match_score = best_score_from(RunMatches(p), 1, None)
            /\ View(p).match_status =
                   classify_match_status(best_score_from(RunMatches(p), 1, None))
            /\ pc = "match_done" => Row(store, p) = View(p)

\* C6 witness: a finished run re-matched a prompt that an earlier run had
\* matched, and the prompt has two Match rows.
C6_Witness ==
    \E p \in Prompts :
        /\ RunCompleted
        /\ Processed(p)
        /\ previous[p][1].match_status # "pending"
        /\ Len(store.matches[p]) = 2

\* C7: the matches of a prompt number at most k, their ranks are 1, 2, ...
\* and a match with a smaller rank has a similarity_score at least as high.
C7_RanksFollowSimilarity ==
    \A p \in Prompts :
        Processed(p) =>
            LET m == RunMatches(p)
            IN /\ Len(m) <= TOP_K
               /\ \A k \in 1..Len(m) : m[k].rank = k
               /\ \A a, b \in 1..Len(m) :
                     m[a].rank < m[b].rank =>
                         m[a].similarity_score >= m[b].similarity_score

\* C8: the best_match_score of a processed prompt is the similarity_score of
\* its rank-1 match, and is absent exactly when the run found no match.
C8_BestScoreIsRankOne ==
    \A p \in Prompts :
        Processed(p) =>
            LET m == RunMatches(p)
            IN /\ IsNone(View(p).best_match_score) <=> Len(m) = 0
               /\ \A k \in 1..Len(m) :
                     m[k].rank = 1 =>
                         View(p).best_match_score = Some(m[k].similarity_score)

\* C9: classify_match_status gives answered iff best_score >= 0.75, partial
\* iff 0.50 <= best_score < 0.75, gap otherwise (also for an absent score).
C9_StatusBands ==
    call.status # "none" =>
        LET b == call.best_score
        IN /\ call.status = "answered" <=>
                  (~IsNone(b) /\ Val(b) >= MATCH_THRESHOLD_ANSWERED)
           /\ call.status = "partial" <=>
                  (~IsNone(b) /\ Val(b) >= MATCH_THRESHOLD_PARTIAL
                              /\ Val(b) < MATCH_THRESHOLD_ANSWERED)
           /\ call.status = "gap" <=>
                  (IsNone(b) \/ Val(b) < MATCH_THRESHOLD_PARTIAL)

\* C9 witness: a score exactly at the answered threshold was classified.
C9_Witness ==
    /\ call.best_score = Some(MATCH_THRESHOLD_ANSWERED)
    /\ call.status = "answered"

StatusOrder(match_status) ==
    CASE match_status = "gap" -> 1
      [] match_status = "partial" -> 2
      [] match_status = "answered" -> 3
      [] OTHER -> 0

\* C10: when a run gives a prompt a best_score at least as high as the one
\* the previous run gave it, its match_status is not a worse bucket.
C10_StatusMonotone ==
    \A p \in Prompts :
        ( /\ Processed(p)
          /\ ~IsNone(previous[p][1].best_match_score)
          /\ ~IsNone(View(p).best_match_score)
          /\ Val(View(p).best_match_score)
                 >= Val(previous[p][1].best_match_score) ) =>
            StatusOrder(View(p).match_status)
                >= StatusOrder(previous[p][1].match_status)

\* C10 witness: a re-match raised a prompt's best score and moved it from
\* gap to partial.
C10_Witness ==
    \E p \in Prompts :
        /\ Processed(p)
        /\ previous[p][1].match_status = "gap"
        /\ ~IsNone(previous[p][1].best_match_score)
        /\ View(p).match_status = "partial"
        /\ Val(View(p).best_match_score) > Val(previous[p][1].best_match_score)

\* C11: a run against an empty page corpus leaves every prompt with
\* match_status gap, no best_match_score and one new Opportunity whose
\* difficulty factor needs_new_page is true.
C11_EmptyCorpusGivesGap ==
    (pc = "match_done" /\ page_data = << >>) =>
        \A p \in Prompts :
            /\ store.match_status[p] = "gap"
            /\ IsNone(store.best_match_score[p])
            /\ Len(store.opportunity[p]) = 1
            /\ store.opportunity[p][1].difficulty_factors.needs_new_page

\* C12: a step of a matching run or of regenerate_opportunities that leaves
\* a prompt with an Opportunity never changes the workflow status the
\* prompt's Opportunity had; only update_opportunity (a step from idle to
\* idle) does.
C12_WorkflowStatusOnlyExternal ==
    [][ ~(pc = "idle" /\ pc' = "idle") =>
          \A p \in Prompts :
              ( /\ store.opportunity[p] # << >>
                /\ store'.opportunity[p] # << >>
                /\ store'.match_status[p] \in {"gap", "partial"} ) =>
                  store'.opportunity[p][1].status = store.opportunity[p][1].status
      ]_vars

\* C13: find_most_similar returns at most min(k, number of candidates)
\* entries, scores non-increasing, and of two candidates with the same score
\* the one with the smaller index first; no candidates, no entries.
C13_TopKOrder ==
    call.fn = "find_most_similar" =>
        LET n == Len(call.candidates)
            r == call.result
        IN /\ Len(r) <= Min(call.top_k, n)
           /\ n = 0 => r = << >>
           /\ \A a, b \in 1..Len(r) :
                 a < b =>
                     \/ r[a].similarity > r[b].similarity
                     \/ r[a].similarity = r[b].similarity /\ r[a].idx < r[b].idx

\* C14: when the query or the candidate has zero norm the score of the pair
\* is exactly 0, in similarity and in every entry of find_most_similar.
C14_ZeroNormScoresZero ==
    /\ call.fn = "similarity" =>
          ( (call.query_zero \/ IsNone(call.candidates[1])) =>
                call.result[1] = 0 )
    /\ call.fn = "find_most_similar" =>
          \A a \in 1..Len(call.result) :
              (call.query_zero \/ IsNone(call.candidates[call.result[a].idx])) =>
                  call.result[a].similarity = 0

\* C15: a match of type exact has similarity_score >= 0.85; a match that is
\* not exact is semantic iff its similarity >= the partial threshold and
\* partial otherwise.
C15_ExactFloorAndTypes ==
    call.fn = "MatchResult" =>
        LET m == call.result[1]
        IN /\ m.match_type \in {"exact", "semantic", "partial"}
           /\ m.match_type = "exact" <=>
                  check_exact_match(call.key_words, call.found)
           /\ m.match_type = "exact" =>
                  /\ m.similarity_score >= EXACT_BOOST
                  /\ m.similarity_score >= call.raw_similarity
           /\ m.match_type # "exact" =>
                  /\ m.similarity_score = call.raw_similarity
                  /\ m.match_type = "semantic" <=>
                         m.similarity_score >= MATCH_THRESHOLD_PARTIAL

\* C15 witness: an exact match of embedding similarity 0.40 is reported at 0.85.
C15_Witness ==
    /\ call.fn = "MatchResult"
    /\ call.raw_similarity = 400
    /\ call.result[1].match_type = "exact"
    /\ call.result[1].similarity_score = EXACT_BOOST

\* C16: when some intent type scores >= 0.25, the label is the one that
\* comes first in the priority order among those with the highest score.
C16_EarliestOfTheBestWins ==
    ( /\ call.fn = "classify"
      /\ ~call.text.empty
      /\ \E t \in IntentTypes : pattern_scores(call.text)[t] >= THRESHOLD ) =>
        LET scores == pattern_scores(call.text)
            highest == CHOOSE v \in { scores[t] : t \in IntentTypes } :
                           \A t \in IntentTypes : scores[t] <= v
            first == CHOOSE k \in 1..Len(priority_order) :
                         /\ scores[priority_order[k]] = highest
                         /\ \A j \in 1..(k - 1) : scores[priority_order[j]] # highest
        IN call.result[1].intent = priority_order[first]

\* C17: classify of an empty or whitespace-only text returns informational,
\* transaction score 0, confidence 0 and the signals ["empty text"].
C17_EmptyText ==
    (call.fn = "classify" /\ call.text.empty) =>
        call.result[1] = [ intent |-> "informational", transaction_score |-> 0,
                           confidence |-> 0, signals |-> << "empty text" >> ]

\* C18: when no intent type reaches 0.25 and the fallback rules choose the
\* label, the confidence is exactly 0.3 (600/2000).
C18_FallbackConfidence ==
    ( /\ call.fn = "classify"
      /\ ~call.text.empty
      /\ \A t \in IntentTypes : pattern_scores(call.text)[t] < THRESHOLD ) =>
        /\ call.result[1].intent = apply_fallback_rules(call.text).intent
        /\ call.result[1].confidence = 600

\* C19: the transaction score follows from the label: transactional
\* min(1, 0.6+t), commercial min(0.8, 0.4+c), comparison min(0.7, 0.35+p),
\* navigational with a nonzero transactional score min(0.5, 0.3+t),
\* opinion_seeking and exploratory min(0.4, 0.2+c), else min(0.25, t); it
\* is in [0, 1], and at least 0.6 for the label transactional.
C19_TransactionScoreByLabel ==
    (call.fn = "classify" /\ ~call.text.empty) =>
        LET label == call.result[1].intent
            score == call.result[1].transaction_score
            t == pattern_scores(call.text)["transactional"]
            c == pattern_scores(call.text)["commercial"]
            p == pattern_scores(call.text)["comparison"]
        IN /\ score =
                 ( CASE label = "transactional" -> Min(1000, 600 + t)
                     [] label = "commercial" -> Min(800, 400 + c)
                     [] label = "comparison" -> Min(700, 350 + p)
                     [] label = "navigational" /\ t # 0 -> Min(500, 300 + t)
                     [] label \in {"opinion_seeking", "exploratory"}
                            -> Min(400, 200 + c)
                     [] OTHER -> Min(250, t) )
           /\ score >= 0 /\ score <= 1000
           /\ label = "transactional" => score >= 600

\* C19 witness: a text labelled navigational that also matches one
\* transactional pattern gets min(0.5, 0.3 + t).
C19_Witness ==
    /\ call.fn = "classify"
    /\ call.result[1].intent = "navigational"
    /\ call.text.totals["transactional"] = 500
    /\ call.result[1].transaction_score = 500

\* C20: priority = clamp01(0.4*popularity + 0.3*transaction_score
\* + 0.2*|sentiment| - 0.1*difficulty), with popularity 0.5 and sentiment 0
\* only when the value is absent (a present popularity of 0 counts as 0).
C20_PriorityFormula ==
    call.fn = "generate_opportunity" =>
        LET popularity == IF IsNone(call.popularity_score) THEN 500
                          ELSE Val(call.popularity_score)
            sentiment == IF IsNone(call.sentiment_score) THEN 0
                         ELSE Abs(Val(call.sentiment_score))
            priority == 4000 * popularity + 3000 * Val(call.transaction_score)
                        + 2000 * sentiment - call.result[1].difficulty_score
        IN call.result[1].priority_score = Max(0, Min(10000000, priority))

\* C21: for every input of generate_opportunity with a numeric transaction
\* score, the difficulty score is in [0.1, 1.0] and the priority score in
\* [0, 1].
C21_ScoreRanges ==
    call.fn = "generate_opportunity" =>
        /\ call.result[1].difficulty_score >= 100000
        /\ call.result[1].difficulty_score <= 1000000
        /\ call.result[1].priority_score >= 0
        /\ call.result[1].priority_score <= 10000000

\* both lower clamps at work: a partial prompt with best score 1.0 (raw
\* difficulty 0.0675) and popularity 0.01 (raw priority below 0)
C21_Witness ==
    /\ call.fn = "generate_opportunity"
    /\ call.text.word_count = 1
    /\ call.match_status = "partial"
    /\ call.best_match_score = Some(1000)
    /\ call.popularity_score = Some(10)
    /\ call.transaction_score = Some(0)
    /\ call.result[1].difficulty_score = 100000
    /\ call.result[1].priority_score = 0

\* C22: needs_new_page is true iff the status is gap and no related pages
\* exist; the base technical_complexity (before the +0.15 of the technical
\* keywords) is 0.6 if needs_new_page, 0.4 for gap with related pages, and
\* for partial max(0, 0.4 - 0.3*best_score) whenever a best score is present,
\* a best score of 0 included, and 0.25 only when it is absent.
C22_TechnicalComplexity ==
    call.fn = "generate_opportunity" =>
        LET factors == call.result[1].difficulty_factors
            base == factors.technical_complexity
                    - (IF call.text.technical THEN 1500 ELSE 0)
            best == call.best_match_score
        IN /\ factors.needs_new_page
                  <=> (call.match_status = "gap" /\ ~call.has_related_pages)
           /\ factors.needs_new_page => base = 6000
           /\ (call.match_status = "gap" /\ call.has_related_pages) => base = 4000
           /\ (call.match_status = "partial" /\ ~IsNone(best))
                  => base = Max(0, 4000 - 3 * Val(best))
           /\ (call.match_status = "partial" /\ IsNone(best)) => base = 2500

\* C23: the recommended action is that of the first matching rule, in the
\* order (1) transaction_score >= threshold, gap, text mentions price/cost/
\* rate -> create_product_page; (2) transaction_score >= threshold, gap ->
\* create_landing_page; (3) transaction_score >= threshold, not gap ->
\* add_cta; (4) FAQ-style stem -> create_faq if gap else expand_existing;
\* (5) gap -> expand_existing with related pages, else create_article;
\* (6) partial -> expand_existing; (7) other.  A transaction score equal to
\* the threshold takes rules 1-3.
C23_RuleOrder ==
    call.fn = "generate_opportunity" =>
        LET high == Val(call.transaction_score) >= TRANSACTIONAL_THRESHOLD
            gap == call.match_status = "gap"
            action == call.result[1].recommended_action
        IN action =
            IF high /\ gap /\ (call.text.pricing \/ call.text.rate)
            THEN "create_product_page"
            ELSE IF high /\ gap THEN "create_landing_page"
            ELSE IF high THEN "add_cta"
            ELSE IF call.text.faq_stem /\ gap THEN "create_faq"
            ELSE IF call.text.faq_stem THEN "expand_existing"
            ELSE IF gap /\ call.has_related_pages THEN "expand_existing"
            ELSE IF gap THEN "create_article"
            ELSE IF call.match_status = "partial" THEN "expand_existing"
            ELSE "other"

\* a FAQ-style text whose transaction score is exactly the threshold: rule 1
\* wins over rule 4
C23_Witness ==
    /\ call.fn = "generate_opportunity"
    /\ call.transaction_score = Some(TRANSACTIONAL_THRESHOLD)
    /\ call.text.faq_stem
    /\ call.match_status = "gap"
    /\ call.result[1].recommended_action = "create_product_page"

\* C25: a match status other than gap or partial handed to the opportunity
\* generator is rejected with an error; it is never turned into a difficulty
\* score, a priority score or a recommended action.
C25_UnknownStatusRejected ==
    (call.fn # "none" /\ call.match_status \notin {"gap", "partial"})
        => call.fn = "raised"

\* C24: whatever the LLM enrichment does (disabled, no answer, a payload, an
\* exception), a prompt the run classified gap or partial gets its
\* Opportunity, and every column of it except content_suggestion is the one
\* computed from the prompt and the match result alone; content_suggestion
\* is the payload or empty.
C24_EnrichmentOnlyDecorates ==
    \A p \in Prompts :
        ( /\ Processed(p)
          /\ p \notin failed
          /\ View(p).match_status \in {"gap", "partial"} ) =>
            LET opp_data == generate_opportunity(raw_text(p),
                                popularity_score(p), store.transaction_score[p],
                                sentiment_score(p), View(p).match_status,
                                View(p).best_match_score,
                                Len(RunMatches(p)) > 0)
            IN \E content_suggestion \in {"llm", "empty"} :
                  View(p).opportunity =
                      << OpportunityRow(p, opp_data, RunMatches(p),
                                        content_suggestion) >>

\* one run in which the enrichment returned a payload for prompt 1 and
\* nothing for prompt 2: both have their Opportunity
C24_Witness ==
    /\ RunCompleted
    /\ failed = {}
    /\ \A p \in Prompts : Processed(p) /\ Len(store.opportunity[p]) = 1
    /\ store.opportunity[1][1].content_suggestion = "llm"
    /\ store.opportunity[2][1].content_suggestion = "empty"

\* C27: a classification step (classify_intent_batch, the reclassify
\* endpoints, a re-import of the CSV) changes only the intent columns of the
\* prompts: match_status, best_match_score, the Match rows and the
\* Opportunity of every prompt, its priority score included, stay as they are.
C27_ReclassifyLeavesMatching ==
    [][ (pc = "idle" /\ pc' \in {"classify_done", "import_done"}) =>
            \A p \in Prompts : Row(store, p)' = Row(store, p) ]_vars

\* a classification that succeeded on a prompt that has an Opportunity
C27_Witness ==
    /\ pc = "classify_done"
    /\ failed = {}
    /\ \E p \in batch :
          /\ store.match_status[p] \in {"gap", "partial"}
          /\ Len(store.opportunity[p]) = 1
          /\ store.transaction_score[p] # None

\* C28: a prompt starts with match_status pending; once its match_status is
\* answered, partial or gap no operation (matching, classification,
\* re-import, regeneration) sets it back to pending, and a prompt the
\* running task has processed is not pending for the task.
C28_NeverBackToPending ==
    [][ \A p \in Prompts :
          /\ store.match_status[p] # "pending" => store'.match_status[p] # "pending"
          /\ Processed(p)' => View(p)'.match_status \in {"answered", "partial", "gap"}
      ]_vars

\* a re-import that updated a prompt an earlier matching run had classified
C28_Witness ==
    /\ pc = "import_done"
    /\ \E p \in Prompts \ failed :
          store.match_status[p] \in {"answered", "partial", "gap"}

\* the members of the RecommendedAction enumeration
RecommendedActions ==
    { "create_faq", "create_article", "create_product_page",
      "create_landing_page", "expand_existing", "add_cta",
      "add_structured_data", "translate", "canonicalize", "other" }

\* C29: every Opportunity a matching run creates has a recommended action of
\* the RecommendedAction enumeration other than 'other'; _recommend_action
\* returns 'other' exactly when match_status is neither gap nor partial,
\* transaction_score is below the threshold and the text has no FAQ stem.
C29_ActionNeverOther ==
    /\ \A p \in Prompts :
          (Processed(p) /\ View(p).opportunity # << >>) =>
              \A k \in 1..Len(View(p).opportunity) :
                  /\ View(p).opportunity[k].recommended_action \in RecommendedActions
                  /\ View(p).opportunity[k].recommended_action # "other"
    /\ \A text \in OpportunityTexts, t \in ScoreGrid \cup {TRANSACTIONAL_THRESHOLD},
          match_status \in StatusStrings, has_related_pages \in BOOLEAN :
          recommend_action(t, match_status, has_related_pages, text).action = "other"
              <=> ( /\ match_status \notin {"gap", "partial"}
                    /\ t < TRANSACTIONAL_THRESHOLD
                    /\ ~text.faq_stem )

\* a finished run that created an Opportunity for each prompt
C29_Witness ==
    /\ RunCompleted
    /\ \A p \in Prompts :
          /\ Processed(p)
          /\ Len(store.opportunity[p]) = 1
          /\ store.opportunity[p][1].recommended_action \in RecommendedActions \ {"other"}

\* C30: has_related_pages handed to the generator is true exactly when the
\* prompt has at least one match: an Opportunity created for a prompt with
\* at least one match has needs_new_page = false and an action other than
\* create_article, whatever the similarity scores are.
C30_MatchMeansRelatedPages ==
    \A p \in Prompts :
        ( /\ Processed(p)
          /\ p \notin failed
          /\ View(p).match_status \in {"gap", "partial"}
          /\ Len(RunMatches(p)) >= 1 ) =>
            /\ Len(View(p).opportunity) = 1
            /\ ~View(p).opportunity[1].difficulty_factors.needs_new_page
            /\ View(p).opportunity[1].recommended_action # "create_article"
            /\ \A text \in OpportunityTexts, t \in OptionalScores \ {None},
                  best \in OptionalScores :
                  LET opp_data == generate_opportunity(text, popularity_score(p),
                                      t, sentiment_score(p), View(p).match_status,
                                      best, bool(RunMatches(p)))
                  IN /\ ~opp_data.difficulty_factors.needs_new_page
                     /\ opp_data.recommended_action # "create_article"

\* a gap prompt (best similarity 0.40) with matches and its Opportunity
C30_Witness ==
    \E p \in Prompts :
        /\ Processed(p)
        /\ p \notin failed
        /\ View(p).match_status = "gap"
        /\ Len(RunMatches(p)) >= 1
        /\ View(p).best_match_score = Some(400)
        /\ Len(View(p).opportunity) = 1
        /\ View(p).opportunity[1].recommended_action = "create_faq"

\* C26: when two matching runs over the same project have both finished,
\* every prompt's stored matches are those of a single run (no rank twice,
\* one rank-1 match, no page twice) and the prompt has at most one
\* Opportunity (a second row is what the unique index on prompt_id refuses
\* with an error).
C26_InterleavedRunsLeaveOneResult ==
    (\A r \in Runs : sessions[r].pc = "done" /\ sessions[r].page_data # << >>) =>
        \A p \in Prompts :
            LET rows == store.matches[p]
            IN /\ \A k, l \in 1..Len(rows) :
                      k # l => /\ rows[k].row.rank # rows[l].row.rank
                               /\ rows[k].row.page_id # rows[l].row.page_id
               /\ Cardinality({ k \in 1..Len(rows) : rows[k].row.rank = "1" }) = 1
               /\ Owners(rows) \in { {1}, {2} }
               /\ Len(store.opportunity[p]) <= 1
====
